---- MODULE Spec2Model ----
(***************************************************************************)
(* Product / seller catalog service (FastAPI + SQLAlchemy).                *)
(*                                                                         *)
(* The store is the two tables of models.py.  Every request handler of     *)
(* routers/product.py, routers/seller.py and routers/login.py is one       *)
(* action; its response (status code and body as filtered by the route's   *)
(* response_model) is kept in resp.  The request-scoped database session   *)
(* of get_db is modelled by pc/session and exercised by SessionSpec.       *)
(***************************************************************************)
EXTENDS Integers, Sequences, FiniteSets, Bags

VARIABLES
    product_rows,   \* table "products": id -> row
    seller_rows,    \* table "sellers": sequence of rows, the id is the index
    resp,       \* the response of the most recent handler run
    created,    \* history: the latest add (id, payload), until that id is updated or deleted
    gone,       \* history: ids deleted successfully since the latest creation
    live,       \* history: successful creations minus successful deletions
    supplied,   \* history: plaintext password supplied for each seller id
    pc,         \* per request slot: idle, or the running request's position in get_db
    session     \* per request slot: "open" while a session made by get_db is not closed

vars == <<product_rows, seller_rows, resp, created, gone, live, supplied, pc, session>>
store == <<product_rows, seller_rows>>
history == <<created, gone, live, supplied>>

(***************************************************************************)
(* Bounds and input sets                                                   *)
(***************************************************************************)
MaxProductId == 2
MaxSellers == 2
MaxReq == 2

ProductIds == 1..MaxProductId
Reqs == 1..MaxReq

\* JSON null / Python None
Null == "<null>"

Names == {"n1"}
Descriptions == {"d1"}
Prices == {1, 2}
Usernames == {"u1", "u2"}
Emails == {"e1"}
\* plaintext passwords and bcrypt strings are both strings: sequences of symbols
Passwords == {<<1>>, <<2>>}

Fields == {"name", "price", "description"}

\* seller_id=1 in add
DefaultSellerId == 1

IsStr(v) == v # Null

(***************************************************************************)
(* passlib CryptContext(schemes=["bcrypt"])                                *)
(***************************************************************************)
Digest(salt, password) == (password[1] * 31 + salt * 17 + 7) % 97

\* the salt bcrypt draws for a new hash: random, so new for every hash
NewSalt(sellerTable) == Len(sellerTable)

\* pwd_context.hash(password) with the salt the library drew
Hash(salt, password) == <<0, salt, Digest(salt, password)>>

\* pwd_context.verify(password, hashed): re-hash under the salt kept in the hash
Verify(password, hashed) == Hash(hashed[2], password) = hashed

(***************************************************************************)
(* Relational engine: ForeignKey("sellers.id") on products.seller_id       *)
(***************************************************************************)
\* fault: an engine that does not check foreign keys
ForeignKeyOff(seller_id, sellerTable) == TRUE

\* the engine rejects a row whose foreign key names no row of sellers
ForeignKeyOK(seller_id, sellerTable) == seller_id \in DOMAIN sellerTable

(***************************************************************************)
(* Response models (schemas.py)                                            *)
(***************************************************************************)
\* fault: the ORM row returned without the response_model filter
DisplaySellerLeak(row) ==
    [username |-> row.username, email |-> row.email, password |-> row.password]

DisplaySeller(row) == [username |-> row.username, email |-> row.email]

\* a DisplayProduct can be built from the row: name and description are
\* strings and the seller relationship is not None
ValidDisplayProduct(row, sellerTable) ==
    /\ IsStr(row.name)
    /\ IsStr(row.description)
    /\ row.seller_id \in DOMAIN sellerTable

DisplayProduct(row, sellerTable) ==
    [name |-> row.name,
     description |-> row.description,
     seller |-> DisplaySeller(sellerTable[row.seller_id])]

RECURSIVE DisplayProducts(_, _, _)
DisplayProducts(ids, table, sellerTable) ==
    IF ids = {} THEN EmptyBag
    ELSE LET i == CHOOSE j \in ids : TRUE
         IN SetToBag({DisplayProduct(table[i], sellerTable)})
                (+) DisplayProducts(ids \ {i}, table, sellerTable)

NotFound(op, id, detail) ==
    [op |-> op, id |-> id, status |-> 404, body |-> [detail |-> detail]]

\* an exception no handler catches: response validation or datastore error
ServerError(op, id) ==
    [op |-> op, id |-> id, status |-> 500, body |-> [detail |-> "Internal Server Error"]]

\* no add is on record
NoneCreated == [id |-> 0, request |-> [name |-> Null, price |-> 0, description |-> Null]]

(***************************************************************************)
(* Initial state: tables created empty by create_all, no request running   *)
(***************************************************************************)
Init ==
    /\ product_rows = [i \in {} |-> Null]
    /\ seller_rows = << >>
    /\ resp = [op |-> "none", id |-> 0, status |-> 0, body |-> [detail |-> "none"]]
    /\ created = NoneCreated
    /\ gone = {}
    /\ live = 0
    /\ supplied = << >>
    /\ pc = [r \in Reqs |-> "idle"]
    /\ session = [r \in Reqs |-> "closed"]

(***************************************************************************)
(* Handlers.  Each is the whole handler: query, mutation, commit, refresh  *)
(* and the serialisation of the return value through the response_model.   *)
(***************************************************************************)

\* GET /products
products ==
    /\ resp' = IF \A i \in DOMAIN product_rows : ValidDisplayProduct(product_rows[i], seller_rows)
               THEN [op |-> "products", id |-> 0, status |-> 200,
                     body |-> [items |-> DisplayProducts(DOMAIN product_rows, product_rows, seller_rows)]]
               ELSE ServerError("products", 0)
    /\ UNCHANGED <<store, history>>

\* GET /products/{id}
get_product(id) ==
    /\ resp' = IF id \in DOMAIN product_rows
               THEN IF ValidDisplayProduct(product_rows[id], seller_rows)
                    THEN [op |-> "get_product", id |-> id, status |-> 200,
                          body |-> DisplayProduct(product_rows[id], seller_rows)]
                    ELSE ServerError("get_product", id)
               ELSE NotFound("get_product", id, "Product not found")
    /\ UNCHANGED <<store, history>>

\* fault: the delete is never committed
delete_product_nocommit(id) ==
    IF id \in DOMAIN product_rows
    THEN /\ resp' = [op |-> "delete_product", id |-> id, status |-> 200,
                     body |-> [message |-> "Product deleted successfully"]]
         /\ created' = IF created.id = id THEN NoneCreated ELSE created
         /\ gone' = gone \cup {id}
         /\ live' = live - 1
         /\ UNCHANGED <<store, supplied>>
    ELSE /\ resp' = NotFound("delete_product", id, "Product not found")
         /\ UNCHANGED <<store, history>>

\* DELETE /product/{id}
delete_product(id) ==
    IF id \in DOMAIN product_rows
    THEN /\ product_rows' = [i \in DOMAIN product_rows \ {id} |-> product_rows[i]]
         /\ resp' = [op |-> "delete_product", id |-> id, status |-> 200,
                     body |-> [message |-> "Product deleted successfully"]]
         /\ created' = IF created.id = id THEN NoneCreated ELSE created
         /\ gone' = gone \cup {id}
         /\ live' = live - 1
         /\ UNCHANGED <<seller_rows, supplied>>
    ELSE /\ resp' = NotFound("delete_product", id, "Product not found")
         /\ UNCHANGED <<store, history>>

\* fault: model_dump() without exclude_unset: unset fields overwrite too
SetAttrsAll(row, request) ==
    [name |-> request.name,
     description |-> request.description,
     price |-> request.price,
     seller_id |-> row.seller_id]

\* request.model_dump(exclude_unset=True) applied with setattr: the fields of
\* fields_set take the request's values, the others keep the row's
SetAttrs(row, request) ==
    [name |-> IF "name" \in request.fields_set THEN request.name ELSE row.name,
     description |-> IF "description" \in request.fields_set
                     THEN request.description ELSE row.description,
     price |-> IF "price" \in request.fields_set THEN request.price ELSE row.price,
     seller_id |-> row.seller_id]

\* PUT /product/{id}
update_product(id, request) ==
    IF id \notin DOMAIN product_rows
    THEN /\ resp' = NotFound("update_product", id, "Product not found")
         /\ UNCHANGED <<store, history>>
    ELSE LET row == SetAttrs(product_rows[id], request)
         IN /\ product_rows' = [product_rows EXCEPT ![id] = row]
            /\ resp' = IF ValidDisplayProduct(row, seller_rows)
                       THEN [op |-> "update_product", id |-> id, status |-> 200,
                             req |-> request, body |-> DisplayProduct(row, seller_rows)]
                       ELSE [op |-> "update_product", id |-> id, status |-> 500,
                             req |-> request, body |-> ServerError("update_product", id).body]
            /\ created' = IF created.id = id THEN NoneCreated ELSE created
            /\ UNCHANGED <<seller_rows, gone, live, supplied>>

\* POST /add_product.  The database assigns the primary key: some id no row
\* uses.  commit() fails when the engine rejects the foreign key.
add(request) ==
    LET new_product == [name |-> request.name,
                        description |-> request.description,
                        price |-> request.price,
                        seller_id |-> DefaultSellerId]
    IN IF ForeignKeyOK(new_product.seller_id, seller_rows)
       THEN \E id \in ProductIds \ DOMAIN product_rows :
              /\ product_rows' = [i \in DOMAIN product_rows \cup {id} |->
                                    IF i = id THEN new_product ELSE product_rows[i]]
              /\ resp' = [op |-> "add", id |-> id, status |-> 201,
                          body |-> [message |-> "Product added successfully",
                                    product |-> [id |-> id,
                                                 name |-> new_product.name,
                                                 description |-> new_product.description,
                                                 price |-> new_product.price,
                                                 seller_id |-> new_product.seller_id]]]
              /\ created' = [id |-> id, request |-> request]
              /\ gone' = {}
              /\ live' = live + 1
              /\ UNCHANGED <<seller_rows, supplied>>
       ELSE /\ resp' = ServerError("add", 0)
            /\ UNCHANGED <<store, history>>

\* fault: the request's password stored as it came
create_seller_plain(request) ==
    LET new_seller == [username |-> request.username,
                       email |-> request.email,
                       password |-> request.password]
    IN /\ Len(seller_rows) < MaxSellers
       /\ seller_rows' = Append(seller_rows, new_seller)
       /\ resp' = [op |-> "create_seller", id |-> Len(seller_rows) + 1, status |-> 201,
                   req |-> request, body |-> DisplaySeller(new_seller)]
       /\ supplied' = Append(supplied, request.password)
       /\ UNCHANGED <<product_rows, created, gone, live>>

\* POST /seller
create_seller(request) ==
    LET hashed_password == Hash(NewSalt(seller_rows), request.password)
        new_seller == [username |-> request.username,
                       email |-> request.email,
                       password |-> hashed_password]
    IN /\ Len(seller_rows) < MaxSellers
       /\ seller_rows' = Append(seller_rows, new_seller)
       /\ resp' = [op |-> "create_seller", id |-> Len(seller_rows) + 1, status |-> 201,
                   req |-> request, body |-> DisplaySeller(new_seller)]
       /\ supplied' = Append(supplied, request.password)
       /\ UNCHANGED <<product_rows, created, gone, live>>

\* POST /api/v1/login.  first() without ORDER BY: any row with the username.
login(request) ==
    LET matching == {i \in DOMAIN seller_rows : seller_rows[i].username = request.username}
    IN /\ IF matching = {}
          THEN resp' = [op |-> "login", id |-> 0, status |-> 404, req |-> request,
                        body |-> [detail |-> "User not found"]]
          ELSE \E i \in matching :
                 LET user == seller_rows[i]
                 IN resp' = IF ~Verify(request.password, user.password)
                            THEN [op |-> "login", id |-> i, status |-> 401, req |-> request,
                                  body |-> [detail |-> "Invalid credentials"]]
                            ELSE [op |-> "login", id |-> i, status |-> 200, req |-> request,
                                  body |-> [access_token |-> "access_token",
                                            token_type |-> "bearer"]]
       /\ UNCHANGED <<store, history>>

(***************************************************************************)
(* Request inputs                                                          *)
(***************************************************************************)
ProductRequests == [name : Names, price : Prices, description : Descriptions]
SellerRequests == [username : Usernames, email : Emails, password : Passwords]
LoginRequests == [username : Usernames, password : Passwords]

\* ProductUpdate bodies: the fields sent (fields_set) and a value for each of
\* them; a field that was not sent holds its default None.  {"name": null}
\* is a valid body (Optional[str]).
UpdateRequests(nameValues, priceValues, descriptionValues) ==
    UNION {
      { [fields_set |-> fs, name |-> n, price |-> p, description |-> d] :
          n \in (IF "name" \in fs THEN nameValues ELSE {Null}),
          d \in (IF "description" \in fs THEN descriptionValues ELSE {Null}),
          \* (None for an unset price is written 0)
          p \in (IF "price" \in fs THEN priceValues ELSE {0}) }
      : fs \in SUBSET Fields }

\* a handler run taken as one step: the request's session is opened and
\* closed within it
Atomic == UNCHANGED <<pc, session>>

(***************************************************************************)
(* Spec: the catalog.  All product inputs, one seller account.             *)
(***************************************************************************)
CatalogUpdates == UpdateRequests(Names \cup {Null}, Prices, Descriptions)
CatalogSellers == {[username |-> "u1", email |-> "e1", password |-> <<1>>]}
CatalogLogins == {[username |-> "u1", password |-> <<1>>]}

Next ==
    \/ products /\ Atomic
    \/ \E id \in ProductIds : get_product(id) /\ Atomic
    \/ \E id \in ProductIds : delete_product(id) /\ Atomic
    \/ \E id \in ProductIds, request \in CatalogUpdates :
          update_product(id, request) /\ Atomic
    \/ \E request \in ProductRequests : add(request) /\ Atomic
    \/ \E request \in CatalogSellers : create_seller(request) /\ Atomic
    \/ \E request \in CatalogLogins : login(request) /\ Atomic

Spec == Init /\ [][Next]_vars

(***************************************************************************)
(* AccountSpec: the accounts.  All seller and login inputs, one product    *)
(* payload.                                                                *)
(***************************************************************************)
AccountProducts == {[name |-> "n1", price |-> 1, description |-> "d1"]}
AccountUpdates == UpdateRequests({Null}, {1}, {"d1"})

AccountNext ==
    \/ products /\ Atomic
    \/ \E id \in ProductIds : get_product(id) /\ Atomic
    \/ \E id \in ProductIds : delete_product(id) /\ Atomic
    \/ \E id \in ProductIds, request \in AccountUpdates :
          update_product(id, request) /\ Atomic
    \/ \E request \in AccountProducts : add(request) /\ Atomic
    \/ \E request \in SellerRequests : create_seller(request) /\ Atomic
    \/ \E request \in LoginRequests : login(request) /\ Atomic

AccountSpec == Init /\ [][AccountNext]_vars

(***************************************************************************)
(* SessionSpec: the request lifecycle around a handler.  get_db is a       *)
(* generator dependency: the request enters it (a new session is made and  *)
(* yielded), the handler runs and returns or raises, and the request       *)
(* leaves it through the finally block.  Requests run concurrently.        *)
(***************************************************************************)

\* db = SessionLocal(); yield db
get_db_enter(r) ==
    /\ pc[r] = "idle"
    /\ pc' = [pc EXCEPT ![r] = "handler"]
    /\ session' = [session EXCEPT ![r] = "open"]
    /\ UNCHANGED <<store, resp, history>>

SessionUpdates == UpdateRequests({}, {}, {})
SessionLogins == [username : {"u1"}, password : Passwords]

\* the handler of request r runs with the session it was given, and
\* returns or raises
handle(r) ==
    /\ pc[r] = "handler"
    /\ \/ products
       \/ \E id \in ProductIds : get_product(id)
       \/ \E id \in ProductIds : delete_product(id)
       \/ \E id \in ProductIds, request \in SessionUpdates : update_product(id, request)
       \/ \E request \in AccountProducts : add(request)
       \/ \E request \in CatalogSellers : create_seller(request)
       \/ \E request \in SessionLogins : login(request)
    /\ pc' = [pc EXCEPT ![r] = IF resp'.status \in {200, 201} THEN "returned" ELSE "raised"]
    /\ UNCHANGED session

\* fault: db.close() after the yield without try/finally
get_db_exit_no_finally(r) ==
    /\ pc[r] \in {"returned", "raised"}
    /\ pc' = [pc EXCEPT ![r] = "idle"]
    /\ session' = [session EXCEPT ![r] = IF pc[r] = "returned" THEN "closed" ELSE @]
    /\ UNCHANGED <<store, resp, history>>

\* finally: db.close()
get_db_exit(r) ==
    /\ pc[r] \in {"returned", "raised"}
    /\ pc' = [pc EXCEPT ![r] = "idle"]
    /\ session' = [session EXCEPT ![r] = "closed"]
    /\ UNCHANGED <<store, resp, history>>

SessionNext ==
    \E r \in Reqs :
        \/ get_db_enter(r)
        \/ handle(r)
        \/ get_db_exit(r)

\* a handler is one query or one insert-commit-refresh and terminates; the
\* framework then always resumes the generator
SessionSpec ==
    /\ Init
    /\ [][SessionNext]_vars
    /\ \A r \in Reqs : WF_vars(handle(r)) /\ WF_vars(get_db_exit(r))

(***************************************************************************)
(* Properties                                                              *)
(***************************************************************************)

\* C1: a product fetched with GET /products/{id} by the id its creation
\* returned, with no update or delete of that id in between, comes back
\* with the name, description and price that were supplied.
C1_CreateThenFetch ==
    (resp.op = "get_product" /\ resp.id = created.id) =>
        /\ resp.status = 200
        /\ resp.body.name = created.request.name
        /\ resp.body.description = created.request.description
        /\ "price" \in DOMAIN resp.body
        /\ resp.body.price = created.request.price

\* C2: a login whose username matches no seller yields 404; one whose
\* username exists but whose password is no such seller's yields 401; one
\* with the username and plaintext password some seller was created with
\* yields the success response.
C2_LoginOutcomes ==
    resp.op = "login" =>
        LET matching == {i \in DOMAIN seller_rows :
                            seller_rows[i].username = resp.req.username}
            correct == {i \in matching : supplied[i] = resp.req.password}
        IN /\ matching = {} => resp.status = 404
           /\ (matching # {} /\ correct = {}) => resp.status = 401
           /\ correct # {} =>
                 /\ resp.status = 200
                 /\ resp.body = [access_token |-> "access_token", token_type |-> "bearer"]

\* C3: an update of an existing product overwrites exactly the fields
\* present in the payload with the supplied values; the omitted fields,
\* the id and the seller_id keep the values they had before.
C3_PartialUpdate ==
    [][(resp'.op = "update_product" /\ resp'.status # 404) =>
          LET id == resp'.id
              request == resp'.req
          IN /\ id \in DOMAIN product_rows
             /\ DOMAIN product_rows' = DOMAIN product_rows
             /\ product_rows'[id].name =
                    IF "name" \in request.fields_set
                    THEN request.name ELSE product_rows[id].name
             /\ product_rows'[id].description =
                    IF "description" \in request.fields_set
                    THEN request.description ELSE product_rows[id].description
             /\ product_rows'[id].price =
                    IF "price" \in request.fields_set
                    THEN request.price ELSE product_rows[id].price
             /\ product_rows'[id].seller_id = product_rows[id].seller_id]_vars

C3_Witness ==
    /\ resp.op = "update_product"
    /\ resp.status = 200
    /\ resp.req.fields_set = {"price"}
    /\ resp.req.price = 2
    /\ product_rows[resp.id] =
          [name |-> "n1", description |-> "d1", price |-> 2, seller_id |-> 1]
    /\ created.id = 0

\* C4: once a product was deleted successfully and no product has been
\* created since, the id names no row, a GET of it yields 404 and a second
\* DELETE of it yields 404.
C4_DeleteThenFetch ==
    [][/\ gone' \cap DOMAIN product_rows' = {}
       /\ (resp'.op = "get_product" /\ resp'.id \in gone') => resp'.status = 404
       /\ (resp'.op = "delete_product" /\ resp'.id \in gone) => resp'.status = 404]_vars

C4_Witness ==
    /\ resp.op = "get_product"
    /\ resp.id \in gone
    /\ resp.status = 404
    /\ DOMAIN product_rows # {}

\* C5: the response of seller creation holds the username and the email
\* that were supplied and nothing else: no password field, plaintext or
\* hashed.
C5_NoPasswordInResponse ==
    resp.op = "create_seller" =>
        /\ resp.status = 201
        /\ DOMAIN resp.body = {"username", "email"}
        /\ resp.body.username = resp.req.username
        /\ resp.body.email = resp.req.email

C5_Witness ==
    /\ resp.op = "create_seller"
    /\ resp.req.password = <<2>>
    /\ seller_rows[resp.id].password = Hash(resp.id - 1, <<2>>)
    /\ resp.body = [username |-> "u2", email |-> "e1"]

\* C6: the password stored for every seller is a hash of the password
\* supplied when the seller was created (it verifies against it) and is
\* never that plaintext, nor any plaintext.
C6_StoredHashed ==
    /\ Len(supplied) = Len(seller_rows)
    /\ \A i \in DOMAIN seller_rows :
          /\ seller_rows[i].password \notin Passwords
          /\ seller_rows[i].password # supplied[i]
          /\ Verify(supplied[i], seller_rows[i].password)

C6_Witness ==
    /\ Len(seller_rows) = 2
    /\ supplied[1] = supplied[2]
    /\ seller_rows[1].password # seller_rows[2].password
    /\ resp.op = "login"
    /\ DOMAIN product_rows # {}

\* C7: GET /products returns one entry per stored product: as many as
\* there were successful creations minus successful deletions.
C7_ListCount ==
    resp.op = "products" =>
        /\ resp.status = 200
        /\ BagCardinality(resp.body.items) = live
        /\ live = Cardinality(DOMAIN product_rows)

\* C8: every stored product's seller_id names a stored seller.
C8_ReferentialIntegrity ==
    \A id \in DOMAIN product_rows :
        product_rows[id].seller_id \in DOMAIN seller_rows

C8_Witness ==
    /\ Cardinality(DOMAIN product_rows) = 2
    /\ resp.op = "add"
    /\ resp.status = 201
    /\ product_rows[resp.id].seller_id = 1
    /\ Len(seller_rows) = 1

\* C9: get, update and delete of an id that names no product report 404
\* and leave the store unchanged; of an id that names a product they
\* succeed, and change at most that product.
C9_NotFoundOrSuccess ==
    [][resp'.op \in {"get_product", "update_product", "delete_product"} =>
          LET id == resp'.id
          IN IF id \notin DOMAIN product_rows
             THEN /\ resp'.status = 404
                  /\ store' = store
             ELSE /\ resp'.status = 200
                  /\ seller_rows' = seller_rows
                  /\ \A other \in DOMAIN product_rows \ {id} :
                        /\ other \in DOMAIN product_rows'
                        /\ product_rows'[other] = product_rows[other]
                  /\ resp'.op = "get_product" => product_rows' = product_rows
                  /\ resp'.op = "delete_product" => id \notin DOMAIN product_rows'
                  /\ resp'.op = "update_product" => id \in DOMAIN product_rows']_vars

\* C10: a request that has ended (its slot is idle again) has no open
\* session, whether its handler returned or raised; a session is open
\* exactly while its request is between entering and leaving get_db; and
\* every session that is opened is closed eventually.
C10_SessionReleased ==
    /\ [](\A r \in Reqs : pc[r] = "idle" => session[r] # "open")
    /\ [](\A r \in Reqs : pc[r] \in {"handler", "returned", "raised"} => session[r] = "open")
    /\ \A r \in Reqs : []<>(session[r] # "open")

C10_Witness ==
    /\ \A r \in Reqs : pc[r] = "idle" /\ session[r] = "closed"
    /\ resp.status = 404

====
